---- MODULE Spec2Model ----
(***************************************************************************)
(* A model of toxcore/misc_tools.h (and of its earlier copy,               *)
(* testing/misc_tools.h): the intrusive circular list tox_list, the        *)
(* self-growing array tox_array and the macro-generated T_quick_sort.      *)
(***************************************************************************)
EXTENDS Integers, Sequences, FiniteSets, TLC

VARIABLES
    prev, next,          \* tox_list.prev / tox_list.next of every list node
    visited, visitedRev, \* hosts handed to the body of the two traversal macros
    travDone,            \* traversals run since the list was last modified
    addLog,              \* nodes added since tox_list_init, while none was removed
    variant,             \* which copy of the header: "testing" or "toxcore"
    arr,                 \* the tox_array and the heap block its data points to
    hist,                \* what was pushed since tox_array_init or the last full pop
    sortInput, sortArr,  \* the array handed to T_quick_sort, and its contents now
    sortCount, cmpName,  \* number of sorts applied, and the comparator in use
    sortTrace,           \* the calls of the last T_quick_sort: [calls, ends]
    ret,                 \* the value the last array call returned, or NoValue
    lastOp               \* the operation executed last: [op, arg, out]

listVars == <<prev, next, visited, visitedRev, travDone, addLog>>
arrVars == <<variant, arr, hist, ret>>
sortVars == <<sortInput, sortArr, sortCount, cmpName, sortTrace>>
vars == <<prev, next, visited, visitedRev, travDone, addLog, variant, arr, hist, ret,
          sortInput, sortArr, sortCount, cmpName, sortTrace, lastOp>>

Op(op, arg, out) == [op |-> op, arg |-> arg, out |-> out]

\* No value: the call returns void, or did not return.
NoValue == -1

(***************************************************************************)
(* Linked list                                                             *)
(***************************************************************************)

\* Number of host records that embed a tox_list member (besides the head).
NumHosts == 3

\* sizeof(parent_type) and the offset of the tox_list member inside it.
HostSize == 2
MEMBER_OFFSET == 1

\* Address of host record h; host 0 is the record that owns the head.
HostAddr(h) == h * HostSize
\* Address of the tox_list embedded in host h.
NodeOf(h) == HostAddr(h) + MEMBER_OFFSET

Hosts == 1..NumHosts
Nodes == {NodeOf(h) : h \in 0..NumHosts}
ListHead == NodeOf(0)

\* The indeterminate value of a pointer field that was never assigned.
Uninit == -1

GET_PARENT(X) == X - MEMBER_OFFSET

\* The two link fields of all nodes, as one value.
Links == [prev |-> prev, next |-> next]

tox_list_init(L, lst) ==
    [prev |-> [L.prev EXCEPT ![lst] = lst],
     next |-> [L.next EXCEPT ![lst] = lst]]

\* tox_list_add that takes a linked new_lst out of its chain first.
tox_list_add_Unlink(L, lst, new_lst) ==
    LET u == IF L.prev[new_lst] \in Nodes /\ L.next[new_lst] \in Nodes
             THEN [prev |-> [L.prev EXCEPT ![L.next[new_lst]] = L.prev[new_lst]],
                   next |-> [L.next EXCEPT ![L.prev[new_lst]] = L.next[new_lst]]]
             ELSE L
        a == tox_list_init(u, new_lst)
        b == [a EXCEPT !.next[new_lst] = a.next[lst]]
        c == [b EXCEPT !.prev[b.next[new_lst]] = new_lst]
        d == [c EXCEPT !.next[lst] = new_lst]
    IN  [d EXCEPT !.prev[new_lst] = lst]

\* tox_list_add inserting before lst (at the tail) instead of after it.
tox_list_add_Tail(L, lst, new_lst) ==
    LET a == tox_list_init(L, new_lst)
        b == [a EXCEPT !.prev[new_lst] = a.prev[lst]]
        c == [b EXCEPT !.next[b.prev[new_lst]] = new_lst]
        d == [c EXCEPT !.prev[lst] = new_lst]
    IN  [d EXCEPT !.next[new_lst] = lst]

\* tox_list_add without "new_lst->next->prev = new_lst".
tox_list_add_NoBackLink(L, lst, new_lst) ==
    LET a == tox_list_init(L, new_lst)
        b == [a EXCEPT !.next[new_lst] = a.next[lst]]
        d == [b EXCEPT !.next[lst] = new_lst]
    IN  [d EXCEPT !.prev[new_lst] = lst]

tox_list_add(L, lst, new_lst) ==
    LET a == tox_list_init(L, new_lst)
        b == [a EXCEPT !.next[new_lst] = a.next[lst]]
        c == [b EXCEPT !.prev[b.next[new_lst]] = new_lst]
        d == [c EXCEPT !.next[lst] = new_lst]
        e == [d EXCEPT !.prev[new_lst] = lst]
    IN  e

\* tox_list_remove that re-initialises the removed node afterwards.
tox_list_remove_Reinit(L, lst) ==
    LET a == [L EXCEPT !.next[L.prev[lst]] = L.next[lst]]
        b == [a EXCEPT !.prev[a.next[lst]] = a.prev[lst]]
    IN  tox_list_init(b, lst)

\* tox_list_remove that also overwrites lst->next with lst->prev.
tox_list_remove_Poison(L, lst) ==
    LET a == [L EXCEPT !.next[L.prev[lst]] = L.next[lst]]
        b == [a EXCEPT !.prev[a.next[lst]] = a.prev[lst]]
    IN  [b EXCEPT !.next[lst] = b.prev[lst]]

\* tox_list_remove without its second assignment.
tox_list_remove_OneWay(L, lst) ==
    [L EXCEPT !.next[L.prev[lst]] = L.next[lst]]

tox_list_remove(L, lst) ==
    LET a == [L EXCEPT !.next[L.prev[lst]] = L.next[lst]]
        b == [a EXCEPT !.prev[a.next[lst]] = a.prev[lst]]
    IN  b

\* A loop that runs more often than there are nodes never ends.
LoopFuel == Cardinality(Nodes) + 1

\* tox_list_for_each advancing through next instead of prev.
RECURSIVE ForEachLoop_Next(_, _, _, _)
ForEachLoop_Next(L, lst, tmp, fuel) ==
    IF tmp = lst \/ fuel = 0 \/ tmp \notin Nodes
    THEN <<>>
    ELSE <<GET_PARENT(tmp)>> \o ForEachLoop_Next(L, lst, L.next[tmp], fuel - 1)

\* The for loop of tox_list_for_each: the condition is tested before the body.
RECURSIVE ForEachLoop(_, _, _, _)
ForEachLoop(L, lst, tmp, fuel) ==
    IF tmp = lst \/ fuel = 0 \/ tmp \notin Nodes
    THEN <<>>
    ELSE <<GET_PARENT(tmp)>> \o ForEachLoop(L, lst, L.prev[tmp], fuel - 1)

\* tox_list_for_each as a do-while loop: the body runs before the first test.
tox_list_for_each_BodyFirst(L, lst) ==
    <<GET_PARENT(L.prev[lst])>>
        \o ForEachLoop(L, lst, L.prev[L.prev[lst]], LoopFuel)

tox_list_for_each(L, lst) == ForEachLoop(L, lst, L.prev[lst], LoopFuel)

RECURSIVE ForEachReverseLoop(_, _, _, _)
ForEachReverseLoop(L, lst, tmp, fuel) ==
    IF tmp = lst \/ fuel = 0 \/ tmp \notin Nodes
    THEN <<>>
    ELSE <<GET_PARENT(tmp)>> \o ForEachReverseLoop(L, lst, L.next[tmp], fuel - 1)

tox_list_for_each_reverse(L, lst) ==
    ForEachReverseLoop(L, lst, L.next[lst], LoopFuel)

\* Nodes met by following `field` from lst, lst included.
RECURSIVE Walk(_, _, _)
Walk(f, n, fuel) ==
    IF fuel = 0 \/ n \notin Nodes THEN {} ELSE {n} \cup Walk(f, f[n], fuel - 1)

Chain(L, lst) == Walk(L.next, lst, LoopFuel)
Members(L, lst) == Chain(L, lst) \ {lst}

\* f applied k times to n.
RECURSIVE Iter(_, _, _)
Iter(f, n, k) == IF k = 0 \/ n \notin Nodes THEN n ELSE Iter(f, f[n], k - 1)

ListIdle ==
    /\ prev = [n \in Nodes |-> Uninit]
    /\ next = [n \in Nodes |-> Uninit]
    /\ visited = <<>>
    /\ visitedRev = <<>>
    /\ travDone = {}
    /\ addLog = [nodes |-> <<>>, pure |-> FALSE]

ArrIdle ==
    /\ variant = "toxcore"
    /\ arr = [data |-> "NULL", len |-> 0, elem_size |-> 0, size |-> 0,
              bytes |-> <<>>, ub |-> {}, leaked |-> FALSE]
    /\ hist = [origin |-> "other", items |-> <<>>]
    /\ ret = NoValue

SortIdle ==
    /\ sortInput = <<>>
    /\ sortArr = <<>>
    /\ sortCount = 0
    /\ cmpName = "total"
    /\ sortTrace = [calls |-> {}, ends |-> TRUE]

InitList ==
    /\ prev = [n \in Nodes |-> IF n = ListHead THEN ListHead ELSE Uninit]
    /\ next = [n \in Nodes |-> IF n = ListHead THEN ListHead ELSE Uninit]
    /\ visited = <<>>
    /\ visitedRev = <<>>
    /\ travDone = {}
    /\ addLog = [nodes |-> <<>>, pure |-> TRUE]
    /\ lastOp = Op("tox_list_init", ListHead, "")
    /\ ArrIdle
    /\ SortIdle

SetLinks(L) ==
    /\ prev' = L.prev
    /\ next' = L.next
    /\ visited' = <<>>
    /\ visitedRev' = <<>>
    /\ travDone' = {}

\* tox_list_add(head, n) for a node that is not linked.
ListAdd ==
    \E n \in Nodes \ {ListHead} :
        /\ n \notin Members(Links, ListHead)
        /\ SetLinks(tox_list_add(Links, ListHead, n))
        /\ addLog' = IF addLog.pure THEN [addLog EXCEPT !.nodes = Append(@, n)]
                      ELSE addLog
        /\ lastOp' = Op("tox_list_add", n, "")
        /\ UNCHANGED <<arrVars, sortVars>>

\* tox_list_remove(m) for a member of the list.
ListRemove ==
    \E m \in Members(Links, ListHead) :
        /\ SetLinks(tox_list_remove(Links, m))
        /\ addLog' = [nodes |-> <<>>, pure |-> FALSE]
        /\ lastOp' = Op("tox_list_remove", m, "")
        /\ UNCHANGED <<arrVars, sortVars>>

ListForEach ==
    /\ visited' = tox_list_for_each(Links, ListHead)
    /\ travDone' = travDone \cup {"for_each"}
    /\ lastOp' = Op("tox_list_for_each", ListHead, "")
    /\ UNCHANGED <<prev, next, visitedRev, addLog, arrVars, sortVars>>

ListForEachReverse ==
    /\ visitedRev' = tox_list_for_each_reverse(Links, ListHead)
    /\ travDone' = travDone \cup {"for_each_reverse"}
    /\ lastOp' = Op("tox_list_for_each_reverse", ListHead, "")
    /\ UNCHANGED <<prev, next, visited, addLog, arrVars, sortVars>>

NextList == ListAdd \/ ListRemove \/ ListForEach \/ ListForEachReverse

SpecList == InitList /\ [][NextList]_vars

\* The chain of the head is circular both ways and its nodes are linked
\* back by their neighbours.
WellFormed(L) ==
    /\ \E k \in 1..Cardinality(Nodes) : Iter(L.next, ListHead, k) = ListHead
    /\ \E k \in 1..Cardinality(Nodes) : Iter(L.prev, ListHead, k) = ListHead
    /\ \A x \in Walk(L.next, ListHead, LoopFuel) \cup Walk(L.prev, ListHead, LoopFuel) :
           /\ L.next[x] \in Nodes
           /\ L.prev[x] \in Nodes
           /\ L.prev[L.next[x]] = x
           /\ L.next[L.prev[x]] = x

\* Misuse: tox_list_add(head, n) for a node that is a member already.
ListAddLinked ==
    \E n \in Members(Links, ListHead) :
        /\ SetLinks(tox_list_add(Links, ListHead, n))
        /\ addLog' = [nodes |-> <<>>, pure |-> FALSE]
        /\ lastOp' = Op("tox_list_add", n, "linked")
        /\ UNCHANGED <<arrVars, sortVars>>

\* Misuse: tox_list_remove(m) for a node that was removed before.
ListRemoveAgain ==
    \E m \in Nodes \ Chain(Links, ListHead) :
        /\ next[m] # Uninit
        /\ SetLinks(tox_list_remove(Links, m))
        /\ addLog' = [nodes |-> <<>>, pure |-> FALSE]
        /\ lastOp' = Op("tox_list_remove", m, "again")
        /\ UNCHANGED <<arrVars, sortVars>>

\* No call so far was a misuse.
ProperUse == lastOp.out = ""

\* The calls that change the list, with the two misuses: any sequence of
\* proper calls, then one misuse, which is not followed further.
NextListMisuse ==
    \/ ProperUse /\ ListAdd
    \/ ProperUse /\ ListRemove
    \/ ProperUse /\ ListAddLinked
    \/ ProperUse /\ ListRemoveAgain

SpecListMisuse == InitList /\ [][NextListMisuse]_vars

(***************************************************************************)
(* Array                                                                   *)
(*                                                                         *)
(* arr holds the three fields of struct tox_array and the heap block that  *)
(* data points to:                                                         *)
(*   data       "NULL", "live" (points to an allocated block) or "freed"   *)
(*              (still holds the address of a block that was freed)        *)
(*   len        uint32_t; a value v is held as v when v < 2^31 and as      *)
(*              v - 2^32 otherwise, so + and - on it are exact mod 2^32    *)
(*   elem_size  size_t                                                     *)
(*   size       bytes allocated for the block (HugeSize: about 2^32        *)
(*              elements), bytes: their contents as far as they are known  *)
(*   ub         kinds of undefined behaviour executed so far               *)
(*   leaked     a block was lost without being freed                       *)
(***************************************************************************)

\* Pushes are made while len is below MaxLen; pops while len >= -MaxWrap.
MaxLen == 3
MaxWrap == 1

ElemSizes == {1, 2}
Bytes == {0, 1}
Variants == {"testing", "toxcore"}

\* The size of an allocation of about 2^32 elements.
HugeSize == -1

\* item == NULL.
NullItem == <<-1>>

Items(es) == [1..es -> Bytes]

\* Unsigned comparison of two uint32_t values.
U32Greater(a, b) == IF (a < 0) = (b < 0) THEN a > b ELSE a < 0

\* elem_size * count, computed in size_t.
SizeOf(es, count) ==
    IF es = 0 \/ count = 0 THEN 0
    ELSE IF count < 0 THEN HugeSize
    ELSE es * count

\* The contents of a block of newSize bytes that starts as `bytes`; the bytes
\* added are indeterminate and taken from fill.
Resized(bytes, newSize, fill) ==
    IF newSize = HugeSize THEN bytes
    ELSE [i \in 1..newSize |->
             IF i <= Len(bytes) THEN bytes[i]
             ELSE fill[((i - Len(bytes) - 1) % Len(fill)) + 1]]

\* What realloc(arr->data, newSize) may do.  "ok": a block of the new size is
\* returned and the old one is gone; "fail": NULL is returned and the old block
\* is untouched; "freed": (size 0 only) the old block is freed and NULL returned.
ReallocOutcomes(A, newSize) ==
    {"ok", "fail"} \cup (IF newSize = 0 /\ A.data = "live" THEN {"freed"} ELSE {})

realloc(A, newSize, outcome, fill) ==
    LET uaf == IF A.data = "freed" THEN {"use_after_free"} ELSE {}
        old == IF A.data = "live" THEN A.bytes ELSE <<>>
    IN  CASE outcome = "ok" ->
               [ret |-> "live", size |-> newSize,
                bytes |-> Resized(old, newSize, fill), oldFreed |-> FALSE, ub |-> uaf]
          [] outcome = "fail" ->
               [ret |-> "NULL", size |-> A.size, bytes |-> A.bytes,
                oldFreed |-> FALSE, ub |-> uaf]
          [] outcome = "freed" ->
               [ret |-> "NULL", size |-> 0, bytes |-> <<>>,
                oldFreed |-> TRUE, ub |-> uaf]

free(A) ==
    CASE A.data = "live" -> [A EXCEPT !.data = "freed", !.size = 0, !.bytes = <<>>]
      [] A.data = "NULL" -> A
      [] A.data = "freed" -> [A EXCEPT !.ub = @ \cup {"double_free"}]

\* memcpy to arr->data, without the offset of the new slot.
memcpy_NoOffset(A, item) ==
    IF A.elem_size = 0 \/ A.data # "live" \/ A.size = HugeSize \/ A.size < A.elem_size
    THEN A
    ELSE [A EXCEPT !.bytes = [i \in 1..Len(@) |->
             IF i <= A.elem_size THEN item[i] ELSE @[i]]]

\* memcpy(arr->data + arr->elem_size * arr->len, item, arr->elem_size)
memcpy(A, item) ==
    LET es == A.elem_size
        off == es * A.len
    IN  IF es = 0 THEN A
        ELSE IF A.data = "NULL" THEN [A EXCEPT !.ub = @ \cup {"null_write"}]
        ELSE IF A.data = "freed" THEN [A EXCEPT !.ub = @ \cup {"use_after_free"}]
        ELSE IF A.size = HugeSize THEN A
        ELSE IF A.len < 0 \/ off + es > A.size
             THEN [A EXCEPT !.ub = @ \cup {"out_of_bounds_write"}]
        ELSE [A EXCEPT !.bytes = [i \in 1..Len(@) |->
                 IF i > off /\ i <= off + es THEN item[i - off] ELSE @[i]]]

tox_array_init(A, elem_size) ==
    [A EXCEPT !.len = 0, !.elem_size = elem_size, !.data = "NULL",
              !.size = 0, !.bytes = <<>>,
              !.leaked = @ \/ A.data = "live"]

tox_array_delete(A) ==
    LET F == free(A) IN [F EXCEPT !.len = 0, !.elem_size = 0]

\* toxcore/misc_tools.h
\* tox_array_push_ptr storing the result of realloc without testing it.
toxcore_push_ptr_NoCheck(A, item, outcome, fill) ==
    LET R == realloc(A, SizeOf(A.elem_size, A.len + 1), outcome, fill)
        B == [A EXCEPT !.data = R.ret,
                       !.size = IF R.ret = "NULL" THEN 0 ELSE R.size,
                       !.bytes = IF R.ret = "NULL" THEN <<>> ELSE R.bytes]
    IN  [B EXCEPT !.len = @ + 1]

toxcore_push_ptr(A, item, outcome, fill) ==
    LET temp == realloc(A, SizeOf(A.elem_size, A.len + 1), outcome, fill) IN
    IF temp.ret = "NULL"
    THEN [A EXCEPT !.data = IF temp.oldFreed THEN "freed" ELSE @,
                   !.size = temp.size, !.bytes = temp.bytes,
                   !.ub = @ \cup temp.ub]
    ELSE LET B == [A EXCEPT !.data = "live", !.size = temp.size,
                            !.bytes = temp.bytes, !.ub = @ \cup temp.ub]
             C == IF item # NullItem THEN memcpy(B, item) ELSE B
         IN  [C EXCEPT !.len = @ + 1]

\* tox_array_pop without "arr->data = NULL" after the free.
toxcore_pop_NoNull(A, num, outcome) ==
    IF num = 0 \/ U32Greater(num, A.len) THEN A
    ELSE IF A.len = num THEN [free(A) EXCEPT !.len = 0]
    ELSE LET temp == realloc(A, SizeOf(A.elem_size, A.len - num), outcome, <<0>>) IN
         IF temp.ret = "NULL" THEN A
         ELSE [A EXCEPT !.len = @ - num, !.data = "live", !.size = temp.size,
                        !.bytes = temp.bytes]

toxcore_pop(A, num, outcome) ==
    IF num = 0 THEN A
    ELSE IF U32Greater(num, A.len) THEN A
    ELSE IF A.len = num
         THEN [free(A) EXCEPT !.data = "NULL", !.len = 0]
    ELSE LET temp == realloc(A, SizeOf(A.elem_size, A.len - num), outcome, <<0>>) IN
         IF temp.ret = "NULL"
         THEN [A EXCEPT !.data = IF temp.oldFreed THEN "freed" ELSE @,
                        !.size = temp.size, !.bytes = temp.bytes,
                        !.ub = @ \cup temp.ub]
         ELSE [A EXCEPT !.len = @ - num, !.data = "live", !.size = temp.size,
                        !.bytes = temp.bytes, !.ub = @ \cup temp.ub]

\* testing/misc_tools.h
\* tox_array_push_ptr keeping the old block when realloc returns NULL.
testing_push_ptr_Checked(A, item, outcome, fill, crash) ==
    LET R == realloc(A, SizeOf(A.elem_size, A.len + 1), outcome, fill)
        B == [A EXCEPT !.data = R.ret, !.size = R.size, !.bytes = R.bytes,
                       !.ub = @ \cup R.ub]
        C == IF item # NullItem THEN memcpy(B, item) ELSE B
    IN  IF R.ret = "NULL" /\ ~R.oldFreed THEN A
        ELSE [C EXCEPT !.len = @ + 1]

\* The memcpy of an undefined access either goes through unnoticed or stops
\* the process there (crash): len is then not incremented and nothing is
\* returned.
testing_push_ptr(A, item, outcome, fill, crash) ==
    LET R == realloc(A, SizeOf(A.elem_size, A.len + 1), outcome, fill)
        B == [A EXCEPT !.data = R.ret,
                       !.size = IF R.ret = "NULL" THEN 0 ELSE R.size,
                       !.bytes = IF R.ret = "NULL" THEN <<>> ELSE R.bytes,
                       !.ub = @ \cup R.ub,
                       !.leaked = @ \/ (A.data = "live" /\ outcome = "fail")]
        C == IF item # NullItem THEN memcpy(B, item) ELSE B
    IN  IF crash /\ C.ub # B.ub
        THEN [C EXCEPT !.ub = @ \cup {"crashed"}]
        ELSE [C EXCEPT !.len = @ + 1]

\* The value tox_array_push_ptr returns: 1 in the testing variant; in the
\* toxcore variant 0 when the realloc failed and none otherwise.
push_ptr_return(v, A, outcome) ==
    IF v = "testing" THEN 1
    ELSE IF realloc(A, SizeOf(A.elem_size, A.len + 1), outcome, <<0>>).ret = "NULL"
         THEN 0
         ELSE NoValue

testing_pop(A, num, outcome) ==
    LET n == IF num = 0 THEN 1 ELSE num
        B == [A EXCEPT !.len = @ - n]
        R == realloc(B, SizeOf(B.elem_size, B.len), outcome, <<0>>)
    IN  [B EXCEPT !.data = R.ret,
                  !.size = IF R.ret = "NULL" THEN 0 ELSE R.size,
                  !.bytes = IF R.ret = "NULL" THEN <<>> ELSE R.bytes,
                  !.ub = @ \cup R.ub,
                  !.leaked = @ \/ (A.data = "live" /\ outcome = "fail")]

\* tox_array_get(arr, i, type) for a type of elem_size bytes.
tox_array_get(A, i) ==
    SubSeq(A.bytes, i * A.elem_size + 1, (i + 1) * A.elem_size)

\* What the realloc call of tox_array_pop may do ("none": it is not reached).
PopOutcomes(v, A, num) ==
    IF v = "testing"
    THEN ReallocOutcomes(A, SizeOf(A.elem_size, A.len - (IF num = 0 THEN 1 ELSE num)))
    ELSE IF num # 0 /\ ~U32Greater(num, A.len) /\ A.len # num
         THEN ReallocOutcomes(A, SizeOf(A.elem_size, A.len - num))
         ELSE {"none"}

InitArray ==
    /\ variant \in Variants
    /\ \E s \in ElemSizes :
          /\ arr = [data |-> "NULL", len |-> 0, elem_size |-> s, size |-> 0,
                    bytes |-> <<>>, ub |-> {}, leaked |-> FALSE]
          /\ lastOp = Op("tox_array_init", s, "")
    /\ hist = [origin |-> "init", items |-> <<>>]
    /\ ret = NoValue
    /\ ListIdle
    /\ SortIdle

ArrayInit ==
    \E s \in ElemSizes :
        /\ arr.ub = {}
        /\ arr' = tox_array_init(arr, s)
        /\ hist' = [origin |-> "init", items |-> <<>>]
        /\ ret' = NoValue
        /\ lastOp' = Op("tox_array_init", s, "")
        /\ UNCHANGED <<variant, listVars, sortVars>>

ArrayDelete ==
    /\ arr.ub = {}
    /\ arr' = tox_array_delete(arr)
    /\ hist' = [origin |-> "other", items |-> <<>>]
    /\ ret' = NoValue
    /\ lastOp' = Op("tox_array_delete", 0, "")
    /\ UNCHANGED <<variant, listVars, sortVars>>

\* tox_array_push(arr, item), or tox_array_push_ptr(arr, NULL).
ArrayPush ==
    \E item \in Items(arr.elem_size) \cup {NullItem} :
    \E outcome \in ReallocOutcomes(arr, SizeOf(arr.elem_size, arr.len + 1)) :
    \E fill \in IF item = NullItem /\ arr.elem_size > 0
                THEN Items(arr.elem_size) ELSE {<<0>>} :
    \E crash \in BOOLEAN :
        /\ arr.ub = {}
        /\ arr.len < MaxLen
        /\ arr' = IF variant = "toxcore"
                  THEN toxcore_push_ptr(arr, item, outcome, fill)
                  ELSE testing_push_ptr(arr, item, outcome, fill, crash)
        /\ ret' = IF "crashed" \in arr'.ub THEN NoValue
                  ELSE push_ptr_return(variant, arr, outcome)
        /\ hist' = IF outcome = "ok" /\ item # NullItem /\ hist.origin # "other"
                   THEN [hist EXCEPT !.items = Append(@, item)]
                   ELSE IF outcome = "fail" /\ variant = "toxcore" THEN hist
                   ELSE [origin |-> "other", items |-> <<>>]
        /\ lastOp' = Op("tox_array_push", item, outcome)
        /\ UNCHANGED <<variant, listVars, sortVars>>

ArrayPop ==
    \E num \in 0..(MaxLen + 1) :
    \E outcome \in PopOutcomes(variant, arr, num) :
        /\ arr.ub = {}
        /\ arr.len >= -MaxWrap
        /\ arr' = IF variant = "toxcore"
                  THEN toxcore_pop(arr, num, outcome)
                  ELSE testing_pop(arr, num, outcome)
        /\ hist' = IF num = arr.len /\ arr.len >= 1
                   THEN [origin |-> "popall", items |-> <<>>]
                   ELSE [origin |-> "other", items |-> <<>>]
        /\ ret' = NoValue
        /\ lastOp' = Op("tox_array_pop", num, outcome)
        /\ UNCHANGED <<variant, listVars, sortVars>>

NextArray == ArrayInit \/ ArrayDelete \/ ArrayPush \/ ArrayPop

SpecArray == InitArray /\ [][NextArray]_vars

(***************************************************************************)
(* Quick sort                                                              *)
(*                                                                         *)
(* make_quick_sort(T) for an element type T with a key and a tag.  An      *)
(* array is a sequence; a pointer into it is the 0-based index of the      *)
(* element it points to.                                                   *)
(***************************************************************************)

\* Arrays of up to MaxSortLen elements are sorted, up to MaxSorts times each.
MaxSortLen == 4
MaxSorts == 2
MaxKey == 3

Elems == (1..MaxKey) \X {0, 1}
Comparators == {"total", "key"}

Three(lt, eq) == IF lt THEN -1 ELSE IF eq THEN 0 ELSE 1

\* The partition loop's result P, with the indices in idx added to those touched.
Touched(P, idx) == [P EXCEPT !.acc = @ \cup idx]

\* The comparators: "total" orders by key, then tag, and returns 0 only for
\* equal elements; "key" compares the keys alone.
cmpfn(c, a, b) ==
    IF c = "key"
    THEN Three(a[1] < b[1], a[1] = b[1])
    ELSE Three(a[1] < b[1] \/ (a[1] = b[1] /\ a[2] < b[2]), a = b)

\* The partition loop without "*_r_-- = _t_": the swap stores one element only.
RECURSIVE PartitionLoop_HalfSwap(_, _, _, _, _)
PartitionLoop_HalfSwap(c, mem, p, l, r) ==
    IF ~(l <= r) THEN [mem |-> mem, l |-> l, r |-> r, acc |-> {}]
    ELSE IF cmpfn(c, mem[l + 1], p) = -1
    THEN Touched(PartitionLoop_HalfSwap(c, mem, p, l + 1, r), {l})
    ELSE IF cmpfn(c, mem[r + 1], p) = 1
    THEN Touched(PartitionLoop_HalfSwap(c, mem, p, l, r - 1), {l, r})
    ELSE Touched(PartitionLoop_HalfSwap(c, [mem EXCEPT ![l + 1] = mem[r + 1]],
                                        p, l + 1, r - 1), {l, r})

\* The partition loop with "cmpfn(*_l_, _p_) != 1" as its first test: _l_ also
\* steps over elements equal to the pivot.
RECURSIVE PartitionLoop_SkipEqual(_, _, _, _, _)
PartitionLoop_SkipEqual(c, mem, p, l, r) ==
    IF ~(l <= r) THEN [mem |-> mem, l |-> l, r |-> r, acc |-> {}]
    ELSE IF cmpfn(c, mem[l + 1], p) # 1
    THEN Touched(PartitionLoop_SkipEqual(c, mem, p, l + 1, r), {l})
    ELSE IF cmpfn(c, mem[r + 1], p) = 1
    THEN Touched(PartitionLoop_SkipEqual(c, mem, p, l, r - 1), {l, r})
    ELSE Touched(PartitionLoop_SkipEqual(c, [mem EXCEPT ![l + 1] = mem[r + 1],
                                                        ![r + 1] = mem[l + 1]],
                                         p, l + 1, r - 1), {l, r})

\* while (_l_ <= _r_) { ... }: the array, _l_ and _r_ when the loop ends, and
\* acc, the indices of the elements the loop has read or written.
RECURSIVE PartitionLoop(_, _, _, _, _)
PartitionLoop(c, mem, p, l, r) ==
    IF ~(l <= r) THEN [mem |-> mem, l |-> l, r |-> r, acc |-> {}]
    ELSE IF cmpfn(c, mem[l + 1], p) = -1
    THEN Touched(PartitionLoop(c, mem, p, l + 1, r), {l})
    ELSE IF cmpfn(c, mem[r + 1], p) = 1
    THEN Touched(PartitionLoop(c, mem, p, l, r - 1), {l, r})
    ELSE Touched(PartitionLoop(c, [mem EXCEPT ![l + 1] = mem[r + 1],
                                              ![r + 1] = mem[l + 1]],
                               p, l + 1, r - 1), {l, r})

\* The index of the pivot, with arr[0] instead of arr[n / 2].
PivotIndex_First(base, n) == base

\* type _p_ = (arr)[(n) / 2], where arr points to element `base`.
PivotIndex(base, n) == base + (n \div 2)

\* One call T_quick_sort(arr, n, cmpfn), arr pointing to element `base` of the
\* array mem, and the calls below it: the contents of mem afterwards, one
\* record per call that got past "if (n < 2) return", and whether the
\* recursion ended.  A call on n elements that nests deeper than n calls is a
\* recursion that does not end: fuel counts the levels left.
RECURSIVE QuickSortRun(_, _, _, _, _)
QuickSortRun(c, mem, base, n, fuel) ==
    IF n < 2 THEN [mem |-> mem, calls |-> {}, ends |-> TRUE]
    ELSE IF fuel = 0 THEN [mem |-> mem, calls |-> {}, ends |-> FALSE]
    ELSE LET p == mem[PivotIndex(base, n) + 1]
             P == PartitionLoop(c, mem, p, base, base + n - 1)
             first == [base |-> base, n |-> P.r - base + 1]
             second == [base |-> P.l, n |-> base + n - P.l]
             A == QuickSortRun(c, P.mem, first.base, first.n, fuel - 1)
             B == QuickSortRun(c, A.mem, second.base, second.n, fuel - 1)
             call == [base |-> base, n |-> n, before |-> mem, p |-> p,
                      l |-> P.l, r |-> P.r, after |-> P.mem,
                      acc |-> P.acc \cup {PivotIndex(base, n)},
                      first |-> first, second |-> second]
         IN  [mem |-> B.mem, calls |-> {call} \cup A.calls \cup B.calls,
              ends |-> A.ends /\ B.ends]

\* T_quick_sort(arr, n, cmpfn) where arr points to element `base` of the array
\* mem: the contents of mem afterwards.
T_quick_sort(c, mem, base, n) == QuickSortRun(c, mem, base, n, n).mem

InitSort ==
    /\ sortInput \in UNION {[1..k -> Elems] : k \in 0..MaxSortLen}
    /\ sortArr = sortInput
    /\ sortCount = 0
    /\ cmpName \in Comparators
    /\ sortTrace = [calls |-> {}, ends |-> TRUE]
    /\ lastOp = Op("make_quick_sort", 0, "")
    /\ ListIdle
    /\ ArrIdle

\* T_quick_sort(arr, length(arr), cmpfn)
QuickSortCall ==
    /\ sortCount < MaxSorts
    /\ sortArr' = T_quick_sort(cmpName, sortArr, 0, Len(sortArr))
    /\ sortTrace' = [calls |-> QuickSortRun(cmpName, sortArr, 0, Len(sortArr),
                                            Len(sortArr)).calls,
                     ends |-> QuickSortRun(cmpName, sortArr, 0, Len(sortArr),
                                           Len(sortArr)).ends]
    /\ sortCount' = sortCount + 1
    /\ lastOp' = Op("T_quick_sort", Len(sortArr), "")
    /\ UNCHANGED <<sortInput, cmpName, listVars, arrVars>>

NextSort == QuickSortCall

SpecSort == InitSort /\ [][NextSort]_vars

(***************************************************************************)
(* Properties of the list                                                  *)
(***************************************************************************)

Reverse(s) == [i \in 1..Len(s) |-> s[Len(s) + 1 - i]]
Range(s) == {s[i] : i \in 1..Len(s)}

\* Following f from lst comes back to lst.
Circular(f, lst) == \E k \in 1..Cardinality(Nodes) : Iter(f, lst, k) = lst

MutualLinks(L, x) ==
    /\ L.next[x] \in Nodes
    /\ L.prev[x] \in Nodes
    /\ L.prev[L.next[x]] = x
    /\ L.next[L.prev[x]] = x

\* C1: after every tox_list_add of an unlinked node and every tox_list_remove
\* of a member, the chain of the head is circular in both directions and
\* every node x of it has x.next.prev = x and x.prev.next = x.
C1_ChainWellFormed ==
    /\ Circular(next, ListHead)
    /\ Circular(prev, ListHead)
    /\ \A x \in Chain(Links, ListHead) \cup Walk(prev, ListHead, LoopFuel) :
           MutualLinks(Links, x)

C1_Witness ==
    /\ lastOp.op = "tox_list_remove"
    /\ Cardinality(Members(Links, ListHead)) = 2
    /\ \E n \in Nodes \ Chain(Links, ListHead) : next[n] # Uninit

\* The hosts of the members in the order of the prev links, from the head.
RECURSIVE PrevOrder(_, _)
PrevOrder(n, k) ==
    IF k = 0 THEN <<>> ELSE <<HostAddr((prev[n] - MEMBER_OFFSET) \div HostSize)>>
                             \o PrevOrder(prev[n], k - 1)

C2_State ==
    LET N == Cardinality(Members(Links, ListHead)) IN
    N >= 1 =>
        /\ "for_each" \in travDone =>
               /\ Len(visited) = N
               /\ Range(visited) = {HostAddr(h) : h \in Hosts} \cap
                                    {m - MEMBER_OFFSET : m \in Members(Links, ListHead)}
               /\ visited = PrevOrder(ListHead, N)
        /\ "for_each_reverse" \in travDone =>
               /\ Len(visitedRev) = N
               /\ visitedRev = Reverse(PrevOrder(ListHead, N))
        /\ travDone = {"for_each", "for_each_reverse"} =>
               visitedRev = Reverse(visited)

C2_Step ==
    lastOp'.op \in {"tox_list_for_each", "tox_list_for_each_reverse"} =>
        /\ prev' = prev
        /\ next' = next

\* C2: on a list of N >= 1 members tox_list_for_each runs its body N times,
\* once per member in link order, tox_list_for_each_reverse visits the same
\* members in the opposite order, and neither changes a prev or next link.
C2_Traversal == []C2_State /\ [][C2_Step]_vars

C2_Witness ==
    /\ travDone = {"for_each", "for_each_reverse"}
    /\ Len(visited) = 3
    /\ visited # visitedRev

\* C9: traversing the empty list (head.prev = head.next = head) with either
\* macro runs the body zero times.
C9_EmptyTraversal ==
    (prev[ListHead] = ListHead /\ next[ListHead] = ListHead) =>
        /\ "for_each" \in travDone => visited = <<>>
        /\ "for_each_reverse" \in travDone => visitedRev = <<>>

C9_Witness ==
    /\ prev[ListHead] = ListHead
    /\ next[ListHead] = ListHead
    /\ travDone = {"for_each", "for_each_reverse"}
    /\ lastOp.op = "tox_list_for_each"
    /\ \E n \in Nodes \ {ListHead} : next[n] = ListHead

(***************************************************************************)
(* Properties of the array                                                 *)
(***************************************************************************)

\* The array holds exactly `items`, in order.
HoldsItems(A, items) ==
    /\ A.len = Len(items)
    /\ Len(items) > 0 => A.data = "live"
    /\ A.data = "live" => A.size = A.elem_size * A.len /\ Len(A.bytes) = A.size
    /\ \A i \in 0..(Len(items) - 1) : tox_array_get(A, i) = items[i + 1]

\* C3: after tox_array_init and k successful pushes of non-null items (no
\* pops), len = k and tox_array_get(arr, i) is the i-th pushed item.
C3_PushThenGet ==
    hist.origin = "init" => HoldsItems(arr, hist.items)

C3_Witness ==
    /\ hist.origin = "init"
    /\ Len(hist.items) = 3
    /\ arr.elem_size = 2
    /\ hist.items[1] # hist.items[2]
    /\ hist.items[2] # hist.items[3]

C5_Step ==
    (variant = "toxcore" /\ lastOp'.op = "tox_array_push" /\ lastOp'.out = "fail") =>
        /\ arr'.len = arr.len
        /\ arr'.data = arr.data
        /\ arr'.elem_size = arr.elem_size
        /\ arr'.size = arr.size
        /\ arr'.bytes = arr.bytes

\* C5: (toxcore) when the realloc of tox_array_push_ptr fails, len, data,
\* elem_size and the stored elements are as before the call.
C5_FailedPushKeepsState == [][C5_Step]_vars

C5_Witness ==
    /\ variant = "toxcore"
    /\ lastOp.op = "tox_array_push"
    /\ lastOp.out = "fail"
    /\ lastOp.arg # NullItem
    /\ arr.len = 2

\* C6: (toxcore) in every reachable state data is NULL iff len = 0.
C6_DataNullIffEmpty ==
    (variant = "toxcore" /\ arr.ub = {}) => (arr.data = "NULL" <=> arr.len = 0)

\* The elements the array holds: none unless data points to a block.
Elements(A) ==
    IF A.data # "live" \/ A.elem_size = 0 \/ A.size = HugeSize THEN <<>>
    ELSE [i \in 1..(A.size \div A.elem_size) |-> tox_array_get(A, i - 1)]

C10_Step ==
    (lastOp'.op = "tox_array_pop" /\ lastOp'.arg = 0) =>
        /\ variant = "testing" =>
               /\ arr'.len = arr.len - 1
               /\ Len(Elements(arr')) = Len(Elements(arr)) - 1
               /\ \A i \in 1..Len(Elements(arr')) : Elements(arr')[i] = Elements(arr)[i]
        /\ variant = "toxcore" =>
               /\ arr'.len = arr.len
               /\ arr'.data = arr.data
               /\ arr'.bytes = arr.bytes

\* C10: tox_array_pop(arr, 0) removes exactly one element in the testing
\* variant (len decreases by 1, the first len - 1 elements are kept) and
\* changes nothing in the toxcore variant.
C10_PopZero == [][C10_Step]_vars

(***************************************************************************)
(* Properties of the sort                                                  *)
(***************************************************************************)

NonDecreasing(c, s) ==
    \A i \in 1..(Len(s) - 1) : cmpfn(c, s[i], s[i + 1]) # 1

Count(s, e) == Cardinality({i \in 1..Len(s) : s[i] = e})
IsPermutation(s, t) ==
    /\ Len(s) = Len(t)
    /\ \A e \in Elems : Count(s, e) = Count(t, e)

\* The reference sort: insertion sort.
RECURSIVE InsertSorted(_, _, _)
InsertSorted(c, s, e) ==
    IF s = <<>> THEN <<e>>
    ELSE IF cmpfn(c, e, s[1]) = 1 THEN <<s[1]>> \o InsertSorted(c, Tail(s), e)
    ELSE <<e>> \o s

RECURSIVE ReferenceSort(_, _)
ReferenceSort(c, s) ==
    IF s = <<>> THEN <<>>
    ELSE InsertSorted(c, ReferenceSort(c, SubSeq(s, 1, Len(s) - 1)), s[Len(s)])

\* C7: for every array of length n >= 0 and a comparator that is a total
\* order, T_quick_sort leaves the array equal to the reference sort of the
\* input: non-decreasing and a permutation of the input.
C7_SortsLikeReference ==
    (sortCount >= 1 /\ cmpName = "total") =>
        /\ sortArr = ReferenceSort("total", sortInput)
        /\ NonDecreasing("total", sortArr)
        /\ IsPermutation(sortArr, sortInput)

C7_Witness ==
    /\ sortCount = 1
    /\ cmpName = "total"
    /\ Len(sortInput) = 4
    /\ sortArr # sortInput
    /\ \E i, j \in 1..4 : i # j /\ sortInput[i] = sortInput[j]

C8_Original_Step ==
    (lastOp'.op = "T_quick_sort" /\ sortCount >= 1) => sortArr' = sortArr

\* C8 as stated: for every input array a second T_quick_sort leaves the
\* output of the first unchanged.
C8_Original == [][C8_Original_Step]_vars

C8_Step ==
    (lastOp'.op = "T_quick_sort" /\ sortCount >= 1 /\ cmpName = "total") =>
        sortArr' = sortArr

\* C8 amended: when the comparator returns 0 only for equal elements, a
\* second T_quick_sort leaves the output of the first unchanged.
C8_Idempotent == [][C8_Step]_vars

C8_Witness ==
    /\ sortCount = 2
    /\ cmpName = "total"
    /\ Len(sortInput) = 4
    /\ sortArr # sortInput
    /\ \E i, j \in 1..4 : i # j /\ sortInput[i] = sortInput[j]

(***************************************************************************)
(* Properties of tox_list_add and tox_list_remove                          *)
(***************************************************************************)

C11_Step ==
    (lastOp'.op = "tox_list_add" /\ lastOp'.out = "") =>
        LET n == lastOp'.arg
            first == next[ListHead]
        IN  /\ next'[ListHead] = n
            /\ prev'[n] = ListHead
            /\ next'[n] = first
            /\ prev'[first] = n
            /\ first # ListHead => prev'[ListHead] = prev[ListHead]
            /\ \A x \in Nodes \ {ListHead, n} : next'[x] = next[x]
            /\ \A x \in Nodes \ {first, n} : prev'[x] = prev[x]

\* C11: tox_list_add(head, n) for an unlinked n puts n right after head:
\* head.next = n, n.prev = head, n.next = the old head.next, whose prev is n;
\* head.prev (unless the list was empty) and all other links are unchanged.
C11_AddAfterHead == [][C11_Step]_vars

C11_Witness ==
    /\ lastOp.op = "tox_list_add"
    /\ lastOp.out = ""
    /\ Cardinality(Members(Links, ListHead)) = 3
    /\ prev[ListHead] # lastOp.arg

C12_Step ==
    (lastOp'.op = "tox_list_remove" /\ lastOp'.out = "") =>
        LET node == lastOp'.arg
            p == prev[node]
            s == next[node]
        IN  /\ next'[p] = s
            /\ prev'[s] = p
            /\ prev'[node] = p
            /\ next'[node] = s
            /\ Members(Links, ListHead) = {node} =>
                   next'[ListHead] = ListHead /\ prev'[ListHead] = ListHead

\* C12: tox_list_remove(node) makes the former neighbours of node point to
\* each other and leaves node.prev and node.next as they were; removing the
\* only member puts the head back into its self-loop.
C12_RemoveSplices == [][C12_Step]_vars

C12_Witness ==
    /\ lastOp.op = "tox_list_remove"
    /\ lastOp.out = ""
    /\ next[ListHead] = ListHead
    /\ prev[ListHead] = ListHead
    /\ prev[lastOp.arg] = ListHead
    /\ next[lastOp.arg] = ListHead

C13_Step ==
    (lastOp'.op = "tox_list_add" /\ lastOp'.out = "linked") =>
        LET n == lastOp'.arg
            p == prev[n]
            s == next[n]
            L2 == [prev |-> prev', next |-> next']
        IN  /\ next'[ListHead] = n
            /\ prev'[n] = ListHead
            /\ next'[p] = n
            /\ prev'[s] = n
            /\ ~(next'[p] = s /\ prev'[s] = p)
            /\ \E x \in {ListHead, n, p, s} :
                   ~(L2.prev[L2.next[x]] = x /\ L2.next[L2.prev[x]] = x)
            /\ ~WellFormed(L2)

\* C13: tox_list_add(head, n) for an n that is a member of the (well-formed)
\* chain links n after head without unlinking it: its former neighbours are
\* not relinked to each other and still point to n, and afterwards some node
\* x has x.next.prev # x or x.prev.next # x.
C13_AddLinkedBreaks == [][C13_Step]_vars

C13_Witness ==
    /\ lastOp.op = "tox_list_add"
    /\ lastOp.out = "linked"
    /\ \E x \in Nodes \ {ListHead, lastOp.arg} : next[x] = lastOp.arg

C19_Step ==
    (lastOp'.op = "tox_list_remove" /\ lastOp'.out = "again") =>
        LET node == lastOp'.arg
            L2 == [prev |-> prev', next |-> next']
        IN  /\ (lastOp.op = "tox_list_remove" /\ lastOp.arg = node) =>
                   /\ prev' = prev
                   /\ next' = next
                   /\ WellFormed(L2)
            /\ (next[prev[node]] = next[node] /\ prev[next[node]] = prev[node]) =>
                   /\ prev' = prev
                   /\ next' = next
            /\ ~WellFormed(L2) =>
                   \/ next[prev[node]] # next[node]
                   \/ prev[next[node]] # prev[node]

\* C19: a second tox_list_remove(node) right after the first changes no link
\* and the chain stays well-formed; a repeated remove changes (and can break)
\* the chain only when the former neighbours of node no longer point to each
\* other, that is when an add or remove in between touched them.
C19_RemoveTwice == [][C19_Step]_vars

C19_Witness ==
    /\ lastOp.op = "tox_list_remove"
    /\ lastOp.out = "again"
    /\ ~WellFormed(Links)

C19_WitnessNoChange ==
    /\ lastOp.op = "tox_list_remove"
    /\ lastOp.out = "again"
    /\ WellFormed(Links)
    /\ Cardinality(Members(Links, ListHead)) = 2

\* C20: after tox_list_add(head, a1), ..., tox_list_add(head, aN) and no
\* removal, tox_list_for_each visits a1, ..., aN in this order and
\* tox_list_for_each_reverse visits aN, ..., a1.
C20_InsertionOrder ==
    addLog.pure =>
        LET hosts == [i \in 1..Len(addLog.nodes) |->
                         HostAddr((addLog.nodes[i] - MEMBER_OFFSET) \div HostSize)]
        IN  /\ "for_each" \in travDone => visited = hosts
            /\ "for_each_reverse" \in travDone => visitedRev = Reverse(hosts)

C20_Witness ==
    /\ addLog.pure
    /\ Len(addLog.nodes) = 3
    /\ travDone = {"for_each", "for_each_reverse"}
    /\ visited = <<HostAddr(2), HostAddr(3), HostAddr(1)>>

(***************************************************************************)
(* Properties of the calls made by T_quick_sort                            *)
(***************************************************************************)

C14_Call(k) ==
    /\ k.n >= 2
    /\ k.p = k.before[k.base + (k.n \div 2) + 1]
    /\ k.l > k.r
    /\ \A i \in k.base..k.r : cmpfn(cmpName, k.after[i + 1], k.p) # 1
    /\ \A i \in k.l..(k.base + k.n - 1) : cmpfn(cmpName, k.after[i + 1], k.p) # -1
    /\ \A i \in (k.r + 1)..(k.l - 1) :
           /\ cmpfn(cmpName, k.after[i + 1], k.p) = 0
           /\ cmpName = "total" => k.after[i + 1] = k.p
    /\ k.first.base = k.base
    /\ k.first.base + k.first.n - 1 = k.r
    /\ k.second.base = k.l
    /\ k.second.base + k.second.n - 1 = k.base + k.n - 1

\* C14: in every call of T_quick_sort with n >= 2 the pivot is arr[n / 2];
\* when the partition loop has ended l > r, no element at an index <= r is
\* greater than the pivot, none at an index >= l is less, an element between
\* r and l compares equal to the pivot, and the two recursive calls are on
\* arr[0..r] and arr[l..n-1].
C14_PartitionFacts == \A k \in sortTrace.calls : C14_Call(k)

C14_Witness ==
    /\ sortCount = 1
    /\ Len(sortInput) = 4
    /\ Cardinality(sortTrace.calls) >= 2
    /\ \E k \in sortTrace.calls : k.l = k.r + 2
    /\ \E k \in sortTrace.calls : k.l = k.r + 1 /\ k.first.n >= 2 /\ k.second.n >= 2

\* C18: for every array and both comparators T_quick_sort ends: each of the
\* two recursive calls of a call on n elements is on fewer than n elements,
\* and every element read or written lies within the sub-array of its call,
\* hence at an index 0..n-1 of the array handed to the sort.
C18_Terminates ==
    /\ sortTrace.ends
    /\ \A k \in sortTrace.calls :
           /\ k.first.n < k.n
           /\ k.second.n < k.n
           /\ k.acc \subseteq k.base..(k.base + k.n - 1)
           /\ k.acc \subseteq 0..(Len(sortInput) - 1)

C18_Witness ==
    /\ sortCount = 1
    /\ Len(sortInput) = 4
    /\ sortTrace.ends
    /\ Cardinality(sortTrace.calls) = 3
    /\ \E k \in sortTrace.calls : k.n = 3 /\ k.acc = k.base..(k.base + 2)

(***************************************************************************)
(* Properties of tox_array under failing allocations and misuse            *)
(***************************************************************************)

FailedTestingPush ==
    /\ variant = "testing"
    /\ lastOp'.op = "tox_array_push"
    /\ lastOp'.out = "fail"

C15_Original_Step ==
    FailedTestingPush =>
        /\ arr'.data = "NULL"
        /\ arr'.len = arr.len + 1
        /\ ret' = 1
        /\ arr' # arr

\* C15 as stated: (testing) a tox_array_push_ptr whose realloc fails stores
\* NULL in data, still increments len and returns 1, and leaves a state that
\* differs from the one before.
C15_Original == [][C15_Original_Step]_vars

C15_Step ==
    (FailedTestingPush /\ arr.data # "freed") =>
        /\ arr'.data = "NULL"
        /\ arr'.size = 0
        /\ arr.data = "live" => arr'.leaked
        /\ (lastOp'.arg = NullItem \/ arr.elem_size = 0) =>
               /\ arr'.len = arr.len + 1
               /\ ret' = 1
               /\ arr'.ub = {}
               /\ arr' # arr
        /\ (lastOp'.arg # NullItem /\ arr.elem_size > 0) =>
               /\ "null_write" \in arr'.ub
               /\ arr'.len \in {arr.len, arr.len + 1}

\* C15: (testing) a tox_array_push_ptr on an initialised array (data NULL or
\* its buffer) whose realloc fails stores NULL in data and loses the buffer.  With item = NULL (or elem_size = 0)
\* len is still incremented and 1 returned, so the state differs from the one
\* before; with an item to copy the call writes through the NULL pointer,
\* which is undefined and need not reach the increment or the return.
C15_FailedPushIgnored == [][C15_Step]_vars

C15_Witness ==
    /\ variant = "testing"
    /\ lastOp.op = "tox_array_push"
    /\ lastOp.out = "fail"
    /\ lastOp.arg = NullItem
    /\ arr.data = "NULL"
    /\ arr.len = 2
    /\ arr.leaked
    /\ ret = 1

\* C16: (toxcore) in every sequence of init, push, pop and delete no buffer
\* is freed twice and no freed buffer is handed to realloc or free or
\* accessed.
C16_NoUseOfFreed ==
    variant = "toxcore" => arr.ub \cap {"double_free", "use_after_free"} = {}

\* The bytes allocated for the array.
Allocated(A) == IF A.data = "live" THEN A.size ELSE 0

C17_Step ==
    /\ arr'.len >= 0
    /\ arr'.ub = {} => Allocated(arr') = SizeOf(arr'.elem_size, arr'.len)
    /\ U32Greater(arr'.len, arr.len) =>
           /\ lastOp'.op = "tox_array_push"
           /\ arr'.len = arr.len + 1
    /\ lastOp'.op = "tox_array_pop" =>
           (U32Greater(lastOp'.arg, arr.len) => arr'.len = arr.len)

\* C17: (both variants) len never wraps around: after every call len is the
\* number of elements the allocation holds, len grows only by one and only
\* in a push (so it never exceeds the number of pushes), and a pop with
\* num > len leaves len as it is.
C17_LenNeverWraps == [][C17_Step]_vars

====
